---- MODULE Spec2Model ----
(***************************************************************************)
(* Execution sandbox pipeline of the web companion:                        *)
(*   PackageManager      (services/PackageManager.js, lines 9-175)         *)
(*   ImportPathResolver  (services/PackageManager.js, lines 187-544)       *)
(*   PyodideExecutor     (services/PyodideExecutor.js, lines 14-504)       *)
(*   PackageStatusPanel  (components/editor/CodeEditor.js, lines 390-811)  *)
(*                                                                         *)
(* Every async method is cut at its await points: one action per           *)
(* synchronous segment, the outcome of the awaited interpreter call being  *)
(* chosen by the action that resumes the method.                           *)
(***************************************************************************)
EXTENDS Integers, Sequences, FiniteSets, TLC

\* ------------------------------------------------------------------ bounds
\* number of installPackage calls that may be pending at the same time
MaxInstallCalls == 2
\* number of initialize() calls that may be pending at the same time
MaxInitCalls == 2
\* longest duration, in clock ticks, of one interpreter call
MaxTick == 1

\* number of pieces an argument of transformCode is made of
MaxPieces == 3
\* number of transformCode calls made before the call under study
MaxEarlierCalls == 1
\* number of lines of the output given to parseTestResults
MaxLines == 3
MaxRunCalls == 2

InstallIds == 1..MaxInstallCalls
InitIds == 1..MaxInitCalls

\* caller of an installPackage call: an initialize() call, or the panel
PanelCaller == 0

\* the initialize() call made by the application controller at start-up
AppInit == 1

VARIABLES
    \* PackageManager fields
    isInstalled, isInstalling, installationProgress,
    \* pending installPackage calls: position, caller, outcome, issued work
    instPc, instCaller, instResult, instWork,
    \* history: an installPackage call succeeded and no reset() came after it
    succeededSinceReset,
    \* PyodideExecutor fields
    pyodide, isInitialized, isInitializing, packageInstalled,
    \* pending initialize() calls
    initPc, initResult,
    \* the pending execute()/transformAndExecute() call and the interpreter's
    \* sys.stdout/sys.stderr binding
    execPc, execResult, sysStreams,
    \* the pending call's method and code argument, and the text it handed
    \* to the interpreter
    execMethod, execCode, patchedCode,
    \* the pending PyodideExecutor.reset() call
    resetPc,
    \* ImportPathResolver: the lastIndex of every pattern of
    \* relativeImportMappings, the number of transformCode calls made, the
    \* argument of the call under study and what it returned
    lastIndex, calls, inputCode, transformed, rwPc,
    \* ImportPathResolver.stats
    stats,
    \* TestRunner.parseTestResults: the arguments of the call under study,
    \* what it returned and its position
    trOutput, trFileName, trResults, trPc,
    \* TestRunner fields
    isRunning, testResults,
    \* pending runChapterTests calls: position, chapterId, the local results,
    \* the index of the test file being run, how its awaited execute() will
    \* settle, the outcome of the call
    runPc, runChapter, runResults, runFile, runPending, runReturn,
    \* history: what the run of each test file of a call ended with
    runLog

pmVars == <<isInstalled, isInstalling, installationProgress, instPc,
            instCaller, instResult, instWork, succeededSinceReset>>
initVars == <<pyodide, isInitialized, isInitializing, initPc, initResult>>
execVars == <<execPc, execResult, sysStreams, execMethod, execCode,
              patchedCode>>
resetVars == <<resetPc>>
rwVars == <<lastIndex, calls, inputCode, transformed, rwPc, stats>>
trVars == <<trOutput, trFileName, trResults, trPc>>
runVars == <<isRunning, testResults, runPc, runChapter, runResults, runFile,
             runPending, runReturn, runLog>>
vars == <<pmVars, initVars, packageInstalled, execVars, resetVars, rwVars, trVars,
          runVars>>

\* ------------------------------------------------------- PackageManager
IdleProgress == [status |-> "idle", percentage |-> 0, message |-> ""]

\* updateProgress(status, percentage, message): the new snapshot
updateProgress(status, percentage, message) ==
    [status |-> status, percentage |-> percentage, message |-> message]

\* the entry a progress update leaves in the work log of the call
ProgressEvent(percentage) == [op |-> "updateProgress", arg |-> percentage]

\* the entry an interpreter call leaves in the work log when it is issued
InterpEvent(name) == [op |-> name, arg |-> 0]

\* the entry an awaited interpreter call leaves in the work log when it
\* settles: 1 fulfilled, -1 rejected
SettleEvent(name, ok) == [op |-> name, arg |-> IF ok THEN 1 ELSE -1]

\* if (this.isInstalled) return true
AlreadyInstalled_NoGuard == FALSE
AlreadyInstalled == isInstalled

\* if (this.isInstalling) return false
InstallInFlight_NoGuard == FALSE
InstallInFlight == isInstalling

\* catch (error) { updateProgress('error', 0, ...); throw error }
\* finally { this.isInstalling = false }
InstallFailure_ClearsInstalled(i, reason, work) ==
    /\ installationProgress' = updateProgress("error", 0, reason)
    /\ isInstalling' = FALSE
    /\ isInstalled' = FALSE
    /\ instPc' = [instPc EXCEPT ![i] = "returned"]
    /\ instResult' = [instResult EXCEPT ![i] = "threw"]
    /\ instWork' = [instWork EXCEPT ![i] = work \o <<ProgressEvent(0)>>]
    /\ UNCHANGED succeededSinceReset
InstallFailure(i, reason, work) ==
    /\ installationProgress' = updateProgress("error", 0, reason)
    /\ isInstalling' = FALSE
    /\ instPc' = [instPc EXCEPT ![i] = "returned"]
    /\ instResult' = [instResult EXCEPT ![i] = "threw"]
    /\ instWork' = [instWork EXCEPT ![i] = work \o <<ProgressEvent(0)>>]
    /\ UNCHANGED <<isInstalled, succeededSinceReset>>

\* installPackage(pyodide), first synchronous segment: the two guards, then
\* isInstalling = true, the 0% and 10% updates and the loadPackage call
installPackage(i, caller) ==
    /\ instPc[i] = "idle"
    /\ instCaller' = [instCaller EXCEPT ![i] = caller]
    /\ IF AlreadyInstalled
       THEN /\ instPc' = [instPc EXCEPT ![i] = "returned"]
            /\ instResult' = [instResult EXCEPT ![i] = "true"]
            /\ instWork' = [instWork EXCEPT ![i] = <<>>]
            /\ UNCHANGED <<isInstalled, isInstalling, installationProgress,
                           succeededSinceReset>>
       ELSE IF InstallInFlight
       THEN /\ instPc' = [instPc EXCEPT ![i] = "returned"]
            /\ instResult' = [instResult EXCEPT ![i] = "false"]
            /\ instWork' = [instWork EXCEPT ![i] = <<>>]
            /\ UNCHANGED <<isInstalled, isInstalling, installationProgress,
                           succeededSinceReset>>
       ELSE IF pyodide
       THEN /\ isInstalling' = TRUE
            /\ installationProgress' =
                   updateProgress("loading_micropip", 10, "Loading micropip...")
            /\ instPc' = [instPc EXCEPT ![i] = "loadPackage"]
            /\ instResult' = [instResult EXCEPT ![i] = "none"]
            /\ instWork' = [instWork EXCEPT ![i] =
                   <<ProgressEvent(0), ProgressEvent(10),
                     InterpEvent("loadPackage")>>]
            /\ UNCHANGED <<isInstalled, succeededSinceReset>>
       ELSE \* no interpreter handle: pyodide.loadPackage throws a TypeError
            \* inside the try block
            InstallFailure(i, "Installation failed: <error.message>",
                           <<ProgressEvent(0), ProgressEvent(10)>>)

\* await pyodide.loadPackage(['micropip']) settles
loadPackageDone(i, ok) ==
    /\ instPc[i] = "loadPackage"
    /\ IF ok
       THEN /\ installationProgress' = updateProgress("downloading", 30,
                   "Downloading package from GitHub...")
            /\ instPc' = [instPc EXCEPT ![i] = "micropipInstall"]
            /\ instWork' = [instWork EXCEPT ![i] =
                   @ \o <<SettleEvent("loadPackage", TRUE), ProgressEvent(30),
                          InterpEvent("micropip.install")>>]
            /\ UNCHANGED <<isInstalled, isInstalling, instResult,
                           succeededSinceReset>>
       ELSE InstallFailure(i, "Installation failed: <error.message>",
                instWork[i] \o <<SettleEvent("loadPackage", FALSE)>>)
    /\ UNCHANGED instCaller

\* await micropip.install(this.packageUrl) settles; on success the 90%
\* update and the first smoke check of verifyInstallation are issued
micropipInstallDone_VerifiesFirst(i, ok) ==
    /\ instPc[i] = "micropipInstall"
    /\ IF ok
       THEN /\ installationProgress' = updateProgress("verifying", 90,
                   "Verifying package installation...")
            /\ instPc' = [instPc EXCEPT ![i] = "verify1"]
            /\ instWork' = [instWork EXCEPT ![i] =
                   @ \o <<SettleEvent("micropip.install", TRUE),
                          InterpEvent("verifyImport"), ProgressEvent(90)>>]
            /\ UNCHANGED <<isInstalled, isInstalling, instResult,
                           succeededSinceReset>>
       ELSE InstallFailure(i, "Installation failed: <error.message>",
                instWork[i] \o <<SettleEvent("micropip.install", FALSE)>>)
    /\ UNCHANGED instCaller
micropipInstallDone(i, ok) ==
    /\ instPc[i] = "micropipInstall"
    /\ IF ok
       THEN /\ installationProgress' = updateProgress("verifying", 90,
                   "Verifying package installation...")
            /\ instPc' = [instPc EXCEPT ![i] = "verify1"]
            /\ instWork' = [instWork EXCEPT ![i] =
                   @ \o <<SettleEvent("micropip.install", TRUE),
                          ProgressEvent(90), InterpEvent("verifyImport")>>]
            /\ UNCHANGED <<isInstalled, isInstalling, instResult,
                           succeededSinceReset>>
       ELSE InstallFailure(i, "Installation failed: <error.message>",
                instWork[i] \o <<SettleEvent("micropip.install", FALSE)>>)
    /\ UNCHANGED instCaller

\* verifyInstallation: the basic import check settles; a failure is caught
\* and makes verifyInstallation return false
verifyImportDone_AlwaysTrue(i, ok) ==
    /\ instPc[i] = "verify1"
    /\ instPc' = [instPc EXCEPT ![i] = IF ok THEN "verify2" ELSE "verifiedTrue"]
    /\ instWork' = [instWork EXCEPT ![i] =
           IF ok THEN @ \o <<SettleEvent("verifyImport", TRUE),
                             InterpEvent("verifyChapters")>>
                 ELSE @ \o <<SettleEvent("verifyImport", FALSE)>>]
    /\ UNCHANGED <<isInstalled, isInstalling, installationProgress,
                   instCaller, instResult,
                   succeededSinceReset>>
verifyImportDone(i, ok) ==
    /\ instPc[i] = "verify1"
    /\ instPc' = [instPc EXCEPT ![i] = IF ok THEN "verify2" ELSE "verifiedFalse"]
    /\ instWork' = [instWork EXCEPT ![i] =
           IF ok THEN @ \o <<SettleEvent("verifyImport", TRUE),
                             InterpEvent("verifyChapters")>>
                 ELSE @ \o <<SettleEvent("verifyImport", FALSE)>>]
    /\ UNCHANGED <<isInstalled, isInstalling, installationProgress,
                   instCaller, instResult,
                   succeededSinceReset>>

\* verifyInstallation: the chapter import checks settle
verifyChaptersDone(i, ok) ==
    /\ instPc[i] = "verify2"
    /\ instPc' = [instPc EXCEPT ![i] =
           IF ok THEN "verifiedTrue" ELSE "verifiedFalse"]
    /\ instWork' = [instWork EXCEPT ![i] =
           @ \o <<SettleEvent("verifyChapters", ok)>>]
    /\ UNCHANGED <<isInstalled, isInstalling, installationProgress,
                   instCaller, instResult, succeededSinceReset>>

\* installPackage resumes with the value of verifyInstallation
verifyReturn(i) ==
    /\ instPc[i] \in {"verifiedTrue", "verifiedFalse"}
    /\ IF instPc[i] = "verifiedTrue"
       THEN /\ isInstalled' = TRUE
            /\ installationProgress' = updateProgress("complete", 100,
                   "Package installed successfully!")
            /\ isInstalling' = FALSE
            /\ instPc' = [instPc EXCEPT ![i] = "returned"]
            /\ instResult' = [instResult EXCEPT ![i] = "true"]
            /\ instWork' = [instWork EXCEPT ![i] = @ \o <<ProgressEvent(100)>>]
            /\ succeededSinceReset' = TRUE
       ELSE InstallFailure(i,
                "Installation failed: Package verification failed",
                instWork[i])
    /\ UNCHANGED instCaller

\* PackageManager.reset()
reset_KeepsInstalling ==
    /\ isInstalled' = FALSE
    /\ isInstalling' = isInstalling
    /\ installationProgress' = IdleProgress
    /\ succeededSinceReset' = FALSE
reset ==
    /\ isInstalled' = FALSE
    /\ isInstalling' = FALSE
    /\ installationProgress' = IdleProgress
    /\ succeededSinceReset' = FALSE


\* this.pyodide.runPython(patchedCode) is synchronous: while a snippet runs,
\* no callback and no continuation of the page runs
ThreadFree == execPc # "running"

\* ------------------------------------------------- PackageStatusPanel
\* resetPackage(): this.packageManager.reset(); this.updateDisplay()
resetPackage ==
    /\ ThreadFree
    /\ reset
    /\ UNCHANGED <<instPc, instCaller, instResult, instWork,
                   initVars, packageInstalled, execVars, resetVars, rwVars, trVars,
                   runVars>>

\* retryInstall(): await this.packageManager.installPackage(
\*                     window.pyodideExecutor?.pyodide)
retryInstall(i) ==
    /\ ThreadFree
    /\ \A k \in InstallIds : k < i => instPc[k] # "idle"
    /\ installPackage(i, PanelCaller)
    /\ UNCHANGED <<initVars, packageInstalled, execVars,
                   resetVars, rwVars, trVars, runVars>>

\* retryInstall resumes after the await (value or exception): updateDisplay()
retryInstallReturn(i) ==
    /\ ThreadFree
    /\ instPc[i] = "returned"
    /\ instCaller[i] = PanelCaller
    /\ instPc' = [instPc EXCEPT ![i] = "idle"]
    /\ instResult' = [instResult EXCEPT ![i] = "none"]
    /\ instWork' = [instWork EXCEPT ![i] = <<>>]
    /\ UNCHANGED <<isInstalled, isInstalling, installationProgress,
                   instCaller, succeededSinceReset,
                   initVars, packageInstalled, execVars, resetVars, rwVars, trVars,
                   runVars>>

\* the awaited interpreter calls of a pending installPackage call settle
installStep(i) ==
    /\ ThreadFree
    /\ \/ \E ok \in BOOLEAN : loadPackageDone(i, ok)
       \/ \E ok \in BOOLEAN : micropipInstallDone(i, ok)
       \/ \E ok \in BOOLEAN : verifyImportDone(i, ok)
       \/ \E ok \in BOOLEAN : verifyChaptersDone(i, ok)
       \/ verifyReturn(i)
    /\ UNCHANGED <<initVars, packageInstalled, execVars, resetVars, rwVars, trVars,
                   runVars>>

\* --------------------------------------------------- PyodideExecutor
\* initialize(), first synchronous segment
initialize_NoInFlightGuard(j) ==
    /\ ThreadFree
    /\ initPc[j] = "idle"
    /\ IF isInitialized
       THEN /\ initPc' = [initPc EXCEPT ![j] = "returned"]
            /\ initResult' = [initResult EXCEPT ![j] = "resolved"]
            /\ UNCHANGED isInitializing
       ELSE /\ isInitializing' = TRUE
            /\ initPc' = [initPc EXCEPT ![j] = "loadPyodide"]
            /\ UNCHANGED initResult
    /\ UNCHANGED <<pmVars, pyodide, isInitialized, packageInstalled, execVars,
                   resetVars, rwVars, trVars, runVars>>
initialize(j) ==
    /\ ThreadFree
    /\ initPc[j] = "idle"
    /\ IF isInitialized
       THEN /\ initPc' = [initPc EXCEPT ![j] = "returned"]
            /\ initResult' = [initResult EXCEPT ![j] = "resolved"]
            /\ UNCHANGED isInitializing
       ELSE IF isInitializing
       THEN /\ initPc' = [initPc EXCEPT ![j] = "waiting"]
            /\ UNCHANGED <<initResult, isInitializing>>
       ELSE /\ isInitializing' = TRUE
            /\ initPc' = [initPc EXCEPT ![j] = "loadPyodide"]
            /\ UNCHANGED initResult
    /\ UNCHANGED <<pmVars, pyodide, isInitialized, packageInstalled, execVars,
                   resetVars, rwVars, trVars, runVars>>

\* while (this.isInitializing) await new Promise(r => setTimeout(r, 100));
\* return
initializeWait(j) ==
    /\ ThreadFree
    /\ initPc[j] = "waiting"
    /\ ~isInitializing
    /\ initPc' = [initPc EXCEPT ![j] = "returned"]
    /\ initResult' = [initResult EXCEPT ![j] = "resolved"]
    /\ UNCHANGED <<pmVars, pyodide, isInitialized, isInitializing,
                   packageInstalled, execVars, resetVars, rwVars, trVars,
                   runVars>>

\* catch (error) { this.isInitializing = false; throw ... } finally { ... }
initializeFailure(j) ==
    /\ isInitializing' = FALSE
    /\ initPc' = [initPc EXCEPT ![j] = "returned"]
    /\ initResult' = [initResult EXCEPT ![j] = "threw"]
    /\ UNCHANGED <<pmVars, isInitialized, packageInstalled>>

\* this.pyodide = await loadPyodide({...}) settles; then the version check
\* is issued
loadPyodideDone(j, ok) ==
    /\ ThreadFree
    /\ initPc[j] = "loadPyodide"
    /\ IF ok
       THEN /\ pyodide' = TRUE
            /\ initPc' = [initPc EXCEPT ![j] = "version"]
            /\ UNCHANGED <<pmVars, isInitialized, isInitializing, initResult,
                           packageInstalled>>
       ELSE initializeFailure(j) /\ UNCHANGED pyodide
    /\ UNCHANGED <<execVars, resetVars, rwVars, trVars, runVars>>

\* the Python version check settles; then setupPythonEnvironment() runs
versionDone(j, ok) ==
    /\ ThreadFree
    /\ initPc[j] = "version"
    /\ IF ok
       THEN /\ initPc' = [initPc EXCEPT ![j] = "setup"]
            /\ UNCHANGED <<pmVars, isInitialized, isInitializing, initResult,
                           packageInstalled>>
       ELSE initializeFailure(j)
    /\ UNCHANGED <<pyodide, execVars, resetVars, rwVars, trVars, runVars>>

\* await this.setupPythonEnvironment() settles; on success
\* installMasteringPerformantCode() registers its callback and calls
\* packageManager.installPackage(this.pyodide)
setupDone(j, ok) ==
    /\ ThreadFree
    /\ initPc[j] = "setup"
    /\ IF ok
       THEN /\ \E i \in InstallIds :
                   /\ \A k \in InstallIds : k < i => instPc[k] # "idle"
                   /\ installPackage(i, j)
            /\ initPc' = [initPc EXCEPT ![j] = "install"]
            /\ UNCHANGED <<isInitialized, isInitializing, initResult,
                           packageInstalled>>
       ELSE initializeFailure(j)
    /\ UNCHANGED <<pyodide, execVars, resetVars, rwVars, trVars, runVars>>

\* installMasteringPerformantCode() resumes with the value or the exception
\* of installPackage: if (success) this.packageInstalled = true
installMasteringPerformantCode_AlwaysSets(j, i) ==
    /\ ThreadFree
    /\ initPc[j] = "install"
    /\ instPc[i] = "returned"
    /\ instCaller[i] = j
    /\ packageInstalled' = TRUE
    /\ instPc' = [instPc EXCEPT ![i] = "idle"]
    /\ instResult' = [instResult EXCEPT ![i] = "none"]
    /\ instWork' = [instWork EXCEPT ![i] = <<>>]
    /\ instCaller' = [instCaller EXCEPT ![i] = PanelCaller]
    /\ initPc' = [initPc EXCEPT ![j] = "finish"]
    /\ UNCHANGED <<isInstalled, isInstalling, installationProgress,
                   succeededSinceReset,
                   pyodide, isInitialized, isInitializing, initResult,
                   execVars, resetVars, rwVars, trVars, runVars>>
installMasteringPerformantCode(j, i) ==
    /\ ThreadFree
    /\ initPc[j] = "install"
    /\ instPc[i] = "returned"
    /\ instCaller[i] = j
    /\ packageInstalled' = (packageInstalled \/ instResult[i] = "true")
    /\ instPc' = [instPc EXCEPT ![i] = "idle"]
    /\ instResult' = [instResult EXCEPT ![i] = "none"]
    /\ instWork' = [instWork EXCEPT ![i] = <<>>]
    /\ instCaller' = [instCaller EXCEPT ![i] = PanelCaller]
    /\ initPc' = [initPc EXCEPT ![j] = "finish"]
    /\ UNCHANGED <<isInstalled, isInstalling, installationProgress,
                   succeededSinceReset,
                   pyodide, isInitialized, isInitializing, initResult,
                   execVars, resetVars, rwVars, trVars, runVars>>

\* initialize() resumes after installMasteringPerformantCode():
\* this.isInitialized = true; finally { this.isInitializing = false }
initializeFinish(j) ==
    /\ ThreadFree
    /\ initPc[j] = "finish"
    /\ isInitialized' = TRUE
    /\ isInitializing' = FALSE
    /\ initPc' = [initPc EXCEPT ![j] = "returned"]
    /\ initResult' = [initResult EXCEPT ![j] = "resolved"]
    /\ UNCHANGED <<pmVars, pyodide, packageInstalled, execVars, resetVars, rwVars, trVars,
                   runVars>>

\* the caller of initialize() takes the outcome
initializeReturn(j) ==
    /\ ThreadFree
    /\ initPc[j] = "returned"
    /\ initPc' = [initPc EXCEPT ![j] = "idle"]
    /\ initResult' = [initResult EXCEPT ![j] = "none"]
    /\ UNCHANGED <<pmVars, pyodide, isInitialized, isInitializing,
                   packageInstalled, execVars, resetVars, rwVars, trVars,
                   runVars>>


\* this.stats as the constructor and resetStats() set it; no other code
\* writes it
ZeroStats ==
    [totalTransformations |-> 0, successfulTransformations |-> 0,
     failedTransformations |-> 0, lastTransformation |-> "null"]

\* PyodideExecutor.reset(), second half: reset services
resetServices ==
    /\ reset
    /\ stats' = ZeroStats
    /\ packageInstalled' = FALSE
    /\ UNCHANGED <<instPc, instCaller, instResult, instWork>>

\* PyodideExecutor.reset(): with an interpreter the module cache is cleared
\* first (awaited); without one the services are reset at once
executorReset ==
    /\ ThreadFree
    /\ resetPc = "idle"
    /\ IF pyodide
       THEN /\ resetPc' = "clearing"
            /\ UNCHANGED <<pmVars, packageInstalled, stats>>
       ELSE /\ resetServices
            /\ resetPc' = "resolved"
    /\ UNCHANGED <<lastIndex, calls, inputCode, transformed, rwPc>>
    /\ UNCHANGED <<initVars, execVars, trVars, runVars>>

\* the awaited module clearing settles; a failure is re-thrown before the
\* services are touched
executorResetDone(ok) ==
    /\ ThreadFree
    /\ resetPc = "clearing"
    /\ IF ok
       THEN /\ resetServices
            /\ resetPc' = "resolved"
       ELSE \* throw error
            /\ resetPc' = "threw"
            /\ UNCHANGED <<pmVars, packageInstalled, stats>>
    /\ UNCHANGED <<lastIndex, calls, inputCode, transformed, rwPc>>
    /\ UNCHANGED <<initVars, execVars, trVars, runVars>>

\* the caller of PyodideExecutor.reset() takes the outcome
executorResetReturn ==
    /\ ThreadFree
    /\ resetPc \in {"resolved", "threw"}
    /\ resetPc' = "idle"
    /\ UNCHANGED <<pmVars, initVars, packageInstalled, execVars, rwVars,
                   trVars, runVars>>

\* ------------------------------------------------ ImportPathResolver
\* A text is a sequence of tokens; every token stands for the literal piece
\* of source text it spells.  The patterns of the rule tables can only match
\* at token borders of such a text.
Tokens ==
    {"from", "import", " ", "\n", "src.", "mastering_performant_code.",
     "dynamic_array", "hash_table", ".", "x", "'", "\"", "__import__(",
     "chapter_01.", "chapter_03.", "chapter_13.", "DynamicArray"}

\* \s
Whitespace == {" ", "\n"}

\* the first character of the token is a word character (\w)
WordStart(tok) == tok \notin {" ", "\n", ".", "'", "\""}

\* number of characters of a token
CharLen(tok) ==
    CASE tok = "from" -> 4
      [] tok = "import" -> 6
      [] tok = "src." -> 4
      [] tok = "mastering_performant_code." -> 26
      [] tok = "dynamic_array" -> 13
      [] tok = "hash_table" -> 10
      [] tok = "DynamicArray" -> 12
      [] tok = "__import__(" -> 11
      [] tok \in {"chapter_01.", "chapter_03.", "chapter_13."} -> 11
      [] OTHER -> 1

\* number of characters of text[1..n]
RECURSIVE PrefixLen(_, _)
PrefixLen(text, n) ==
    IF n = 0 THEN 0 ELSE PrefixLen(text, n - 1) + CharLen(text[n])

\* string.length
TextLen(text) == PrefixLen(text, Len(text))

\* pattern elements: one token out of a set, \s+ and \s*
Lit(tok) == [ws |-> FALSE, min |-> 1, toks |-> {tok}]
OneOf(toks) == [ws |-> FALSE, min |-> 1, toks |-> toks]
Spaces == [ws |-> TRUE, min |-> 1, toks |-> Whitespace]
OptSpaces == [ws |-> TRUE, min |-> 0, toks |-> Whitespace]

\* a regular expression: its elements, a trailing \b, a trailing $
Regex(elems, wordEnd, atEnd) ==
    [elems |-> elems, wordEnd |-> wordEnd, atEnd |-> atEnd]

\* first position at or after p that holds no whitespace
RECURSIVE SkipSpaces(_, _)
SkipSpaces(text, p) ==
    IF p <= Len(text) /\ text[p] \in Whitespace
    THEN SkipSpaces(text, p + 1)
    ELSE p

\* the elements k.. match text from position p: the position after the
\* match, or 0
RECURSIVE MatchFrom(_, _, _, _)
MatchFrom(elems, k, text, p) ==
    IF k > Len(elems) THEN p
    ELSE IF elems[k].ws
    THEN LET q == SkipSpaces(text, p)
         IN  IF q - p < elems[k].min THEN 0
             ELSE MatchFrom(elems, k + 1, text, q)
    ELSE IF p <= Len(text) /\ text[p] \in elems[k].toks
    THEN MatchFrom(elems, k + 1, text, p + 1)
    ELSE 0

\* the regular expression matches text at position p: the position after
\* the match, or 0
MatchEnd(re, text, p) ==
    LET e == MatchFrom(re.elems, 1, text, p)
    IN  IF e = 0 THEN 0
        ELSE IF re.wordEnd /\ e <= Len(text) /\ WordStart(text[e]) THEN 0
        ELSE IF re.atEnd /\ e <= Len(text) THEN 0
        ELSE e

\* regex.test(text) for a regular expression without the g flag
Test(re, text) == \E p \in 1..Len(text) : MatchEnd(re, text, p) # 0

\* string.match(pattern) with the g flag: the number of matches (0: null)
RECURSIVE CountMatches(_, _, _)
CountMatches(re, text, p) ==
    IF p > Len(text) THEN 0
    ELSE LET e == MatchEnd(re, text, p)
         IN  IF e # 0 THEN 1 + CountMatches(re, text, e)
             ELSE CountMatches(re, text, p + 1)

\* string.replace(pattern, replacement) with the g flag
RECURSIVE ReplaceAll(_, _, _, _)
ReplaceAll(re, replacement, text, p) ==
    IF p > Len(text) THEN <<>>
    ELSE LET e == MatchEnd(re, text, p)
         IN  IF e # 0 THEN replacement \o ReplaceAll(re, replacement, text, e)
             ELSE <<text[p]>> \o ReplaceAll(re, replacement, text, p + 1)

\* pattern.test(line) with the g flag: the search starts at the character
\* index lastIndex; a match leaves lastIndex behind the match, a failure
\* resets it to 0
TestGlobal(re, line, lastIdx) ==
    LET found == {p \in 1..Len(line) :
                     /\ PrefixLen(line, p - 1) >= lastIdx
                     /\ MatchEnd(re, line, p) # 0}
    IN  IF lastIdx > TextLen(line) \/ found = {}
        THEN [found |-> FALSE, lastIndex |-> 0]
        ELSE LET first == CHOOSE p \in found : \A q \in found : p <= q
             IN  [found |-> TRUE,
                  lastIndex |-> PrefixLen(line, MatchEnd(re, line, first) - 1)]

\* string.includes(needle)
Includes(text, needle) ==
    \E p \in 1..(Len(text) - Len(needle) + 1) :
        \A k \in 1..Len(needle) : text[p + k - 1] = needle[k]

\* this.importTransformations
importTransformations ==
    << [id |-> "/from\\s+src\\./g",
        pattern |-> Regex(<<Lit("from"), Spaces, Lit("src.")>>, FALSE, FALSE),
        replacement |-> <<"from", " ", "mastering_performant_code.">>],
       [id |-> "/import\\s+src\\./g",
        pattern |-> Regex(<<Lit("import"), Spaces, Lit("src.")>>, FALSE, FALSE),
        replacement |-> <<"import", " ", "mastering_performant_code.">>],
       [id |-> "/__import__\\([\"']src\\./g",
        pattern |-> Regex(<<Lit("__import__("), OneOf({"\"", "'"}),
                            Lit("src.")>>, FALSE, FALSE),
        replacement |-> <<"__import__(", "\"", "mastering_performant_code.">>],
       [id |-> "/'src\\./g",
        pattern |-> Regex(<<Lit("'"), Lit("src.")>>, FALSE, FALSE),
        replacement |-> <<"'", "mastering_performant_code.">>],
       [id |-> "/\"src\\./g",
        pattern |-> Regex(<<Lit("\""), Lit("src.")>>, FALSE, FALSE),
        replacement |-> <<"\"", "mastering_performant_code.">>] >>

\* one entry of this.relativeImportMappings:
\* /<keyword>\s+<module path>\b/g -> '<keyword> mastering_performant_code.
\* <chapter>.<module>'
Mapping(keyword, path, chapter) ==
    [pattern |-> Regex(<<Lit(keyword), Spaces>> \o [k \in 1..Len(path) |->
                           Lit(path[k])], TRUE, FALSE),
     replacement |-> <<keyword, " ", "mastering_performant_code.", chapter,
                       path[Len(path)]>>]

\* this.relativeImportMappings, in table order, restricted to the entries
\* whose module is spelled by a token (dynamic_array, hash_table); no other
\* entry can match a text made of Tokens
relativeImportMappings ==
    << Mapping("from", <<"dynamic_array">>, "chapter_01."),
       Mapping("import", <<"dynamic_array">>, "chapter_01."),
       Mapping("from", <<"hash_table">>, "chapter_01."),
       Mapping("import", <<"hash_table">>, "chapter_01."),
       Mapping("from", <<"dynamic_array">>, "chapter_03."),
       Mapping("import", <<"dynamic_array">>, "chapter_03."),
       Mapping("from", <<".", "dynamic_array">>, "chapter_03."),
       Mapping("from", <<"hash_table">>, "chapter_13."),
       Mapping("from", <<".", "hash_table">>, "chapter_13.") >>

RuleIds == 1..Len(relativeImportMappings)

\* diagnostics.transformations.push({pattern: pattern.toString(), ...,
\* count: matches.length, type: 'src_transformation'})
srcEntry_CountsOne(rule, matches) ==
    [pattern |-> rule.id, count |-> 1, type |-> "src_transformation"]
srcEntry(rule, matches) ==
    [pattern |-> rule.id, count |-> matches, type |-> "src_transformation"]

\* transformCode, first loop: the prefix rules k.. applied to the whole
\* text; the text and the diagnostics entries
RECURSIVE applySrcTransformations(_, _, _)
applySrcTransformations(k, text, entries) ==
    IF k > Len(importTransformations)
    THEN [text |-> text, entries |-> entries]
    ELSE LET rule == importTransformations[k]
             matches == CountMatches(rule.pattern, text, 1)
         IN  IF matches > 0
             THEN applySrcTransformations(k + 1,
                      ReplaceAll(rule.pattern, rule.replacement, text, 1),
                      Append(entries, srcEntry(rule, matches)))
             ELSE applySrcTransformations(k + 1, text, entries)

\* the guard of the line pass: neither /from\s+mastering_performant_code\./
\* nor /import\s+mastering_performant_code\./ matches the line
NotYetQualified(line) ==
    /\ ~Test(Regex(<<Lit("from"), Spaces,
                     Lit("mastering_performant_code.")>>, FALSE, FALSE), line)
    /\ ~Test(Regex(<<Lit("import"), Spaces,
                     Lit("mastering_performant_code.")>>, FALSE, FALSE), line)

\* transformCode, body of lines.map: the mappings r.. applied to one line;
\* the line, the lastIndex of every pattern and the running total
RECURSIVE mapLine(_, _, _, _)
mapLine(r, line, lastIdx, total) ==
    IF r > Len(relativeImportMappings)
    THEN [line |-> line, lastIndex |-> lastIdx, total |-> total]
    ELSE LET rule == relativeImportMappings[r]
             t == TestGlobal(rule.pattern, line, lastIdx[r])
         IN  IF t.found /\ NotYetQualified(line)
             THEN \* line.replace(pattern, replacement) leaves lastIndex 0
                  LET newLine == ReplaceAll(rule.pattern, rule.replacement,
                                            line, 1)
                  IN  mapLine(r + 1, newLine,
                              [lastIdx EXCEPT ![r] = 0],
                              IF newLine # line THEN total + 1 ELSE total)
             ELSE mapLine(r + 1, line,
                          [lastIdx EXCEPT ![r] = t.lastIndex], total)

\* string.split('\n'): the lines of text[p..], cur being the line so far
RECURSIVE SplitLines(_, _, _)
SplitLines(text, p, cur) ==
    IF p > Len(text) THEN <<cur>>
    ELSE IF text[p] = "\n" THEN <<cur>> \o SplitLines(text, p + 1, <<>>)
    ELSE SplitLines(text, p + 1, Append(cur, text[p]))

\* lines.join('\n')
RECURSIVE JoinLines(_, _)
JoinLines(lines, n) ==
    IF n > Len(lines) THEN <<>>
    ELSE IF n = Len(lines) THEN lines[n]
    ELSE lines[n] \o <<"\n">> \o JoinLines(lines, n + 1)

\* transformCode, lines.map over the lines n..
RECURSIVE mapLines(_, _, _, _)
mapLines(lines, n, lastIdx, total) ==
    IF n > Len(lines)
    THEN [lines |-> lines, lastIndex |-> lastIdx, total |-> total]
    ELSE LET m == mapLine(1, lines[n], lastIdx, total)
         IN  mapLines([lines EXCEPT ![n] = m.line], n + 1, m.lastIndex,
                      m.total)

\* if (totalRelTransformations > 0) diagnostics.transformations.push(...)
relativeEntry_Always(total) ==
    << [pattern |-> "relativeImportMappings", count |-> total,
        type |-> "relative_import_mapping"] >>
relativeEntry(total) ==
    IF total > 0
    THEN << [pattern |-> "relativeImportMappings", count |-> total,
             type |-> "relative_import_mapping"] >>
    ELSE <<>>

\* detectPotentialIssues(code).warnings
detectPotentialIssues(text) ==
    (IF Includes(text, <<"mastering_performant_code.",
                         "mastering_performant_code.">>)
     THEN <<"Potential double transformation detected">> ELSE <<>>)
    \o
    (IF Includes(text, <<"src.">>)
        /\ Includes(text, <<"mastering_performant_code.">>)
     THEN <<"Mixed import patterns detected - some imports may not be transformed">>
     ELSE <<>>)

\* detectPotentialIssues(code).errors
detectedErrors(text) ==
    IF Includes(text, <<"from", " ", "mastering_performant_code.", " ",
                        "import">>)
    THEN <<"Invalid import statement: missing module name after dot">>
    ELSE <<>>

\* hasSyntaxErrors(code)
hasSyntaxErrors(text) ==
    \/ Test(Regex(<<Lit("from"), Spaces, Lit("mastering_performant_code."),
                    OptSpaces, Lit("import")>>, FALSE, FALSE), text)
    \/ Test(Regex(<<Lit("import"), Spaces, Lit("mastering_performant_code."),
                    OptSpaces>>, FALSE, TRUE), text)
    \/ Test(Regex(<<Lit("from"), Spaces, Lit("mastering_performant_code."),
                    OptSpaces>>, FALSE, TRUE), text)

\* validateTransformation(originalCode, transformedCode)
validateTransformation(originalCode, transformedCode) ==
    [warnings |->
         (IF originalCode = transformedCode
          THEN <<"No transformations were applied">> ELSE <<>>)
         \o detectPotentialIssues(transformedCode),
     errors |->
         detectedErrors(transformedCode)
         \o (IF hasSyntaxErrors(transformedCode)
             THEN <<"Transformed code contains syntax errors">> ELSE <<>>)]

\* transformCode, from the validation on: the returned record and the
\* lastIndex values the call leaves
transformCodeValidate(code, src, rel, transformedCode) ==
    [transformedCode |-> transformedCode,
     transformations |-> src.entries \o relativeEntry(rel.total),
     warnings |-> validateTransformation(code, transformedCode).warnings,
     errors |-> validateTransformation(code, transformedCode).errors,
     lastIndex |-> rel.lastIndex]

\* transformCode, from lines.join('\n') on
transformCodeJoin(code, src, rel) ==
    transformCodeValidate(code, src, rel, JoinLines(rel.lines, 1))

\* transformCode, from the line pass on; src is the outcome of the first loop
transformCodeLines(code, lastIdx, src) ==
    transformCodeJoin(code, src,
        mapLines(SplitLines(src.text, 1, <<>>), 1, lastIdx, 0))

\* transformCode(code) on a resolver whose line patterns hold lastIdx
transformCode(code, lastIdx) ==
    transformCodeLines(code, lastIdx, applySrcTransformations(1, code, <<>>))

\* the pieces the arguments of transformCode are made of
Pieces ==
    { <<"from", " ">>, <<"import", " ">>, <<" ", "import", " ">>,
      <<"src.">>, <<"mastering_performant_code.">>, <<"dynamic_array">>,
      <<".">>, <<"x">>, <<"'">>, <<"\n">> }

\* the texts made of at most n pieces
RECURSIVE Texts(_)
Texts(n) ==
    IF n = 0 THEN {<<>>}
    ELSE LET shorter == Texts(n - 1)
         IN  shorter \cup {t \o piece : t \in shorter, piece \in Pieces}

\* arguments of the transformCode calls made before the call under study
EarlierCodes ==
    { <<"from", " ", "dynamic_array", " ", "import", " ", "dynamic_array">>,
      <<"from", " ", "mastering_performant_code.", "x", " ", "import", " ",
        "hash_table">> }

\* testTransformation, testCases: the case 'Basic from import' (the other
\* cases name modules no token spells)
testCases ==
    { <<"from", " ", "src.", "chapter_01.", "dynamic_array", " ", "import",
        " ", "DynamicArray">> }

\* a line the first loop qualifies with the package root and that holds the
\* plain form 'import dynamic_array' behind it
QualifiedLine ==
    <<"from", " ", "src.", "x", " ", "import", " ", "dynamic_array">>

\* longer arguments: two prefix forms of one rule and one of another, a
\* plain import between two lines like QualifiedLine, four lines that end
\* with a plain import, and two lines for two rules of the line pass
SampleCodes ==
    { <<"from", " ", "src.", "x", "\n", "import", " ", "src.", "x", "\n",
        "from", " ", " ", "src.", "dynamic_array">>,
      QualifiedLine \o <<"\n", "import", " ", "dynamic_array", "\n">>
          \o QualifiedLine,
      QualifiedLine
          \o <<"\n", "from", " ", "hash_table", " ", "import", " ",
               "dynamic_array", "\n">>
          \o QualifiedLine \o <<"\n", "import", " ", "dynamic_array">>,
      <<"from", " ", "dynamic_array", " ", "import", " ", "x", "\n",
        "import", " ", "hash_table">> }

\* an argument that is not a string (null, a number, an object)
NonText == <<"null">>

\* arguments of the transformCode call under study
Codes ==
    Texts(MaxPieces) \cup EarlierCodes \cup testCases \cup SampleCodes
        \cup {NonText}

\* no transformCode result yet
NoTransformation ==
    [transformedCode |-> <<>>, transformations |-> <<>>, warnings |-> <<>>,
     errors |-> <<>>]

\* a transformCode call made earlier on the same resolver
earlierTransformCode(text) ==
    /\ rwPc = "ready"
    /\ calls < MaxEarlierCalls
    /\ calls' = calls + 1
    /\ lastIndex' = transformCode(text, lastIndex).lastIndex
    /\ UNCHANGED <<inputCode, transformed, rwPc, stats>>
    /\ UNCHANGED <<pmVars, initVars, packageInstalled, execVars, resetVars,
                   trVars, runVars>>

\* the transformCode(code) call under study
transformCodeCall ==
    /\ rwPc = "ready"
    /\ IF inputCode = NonText
       THEN \* transformedCode.match(pattern) throws a TypeError; the method
            \* has no try block
            /\ rwPc' = "threw"
            /\ UNCHANGED <<transformed, lastIndex>>
       ELSE /\ \E result \in {transformCode(inputCode, lastIndex)} :
                   /\ transformed' =
                          [transformedCode |-> result.transformedCode,
                           transformations |-> result.transformations,
                           warnings |-> result.warnings,
                           errors |-> result.errors]
                   /\ lastIndex' = result.lastIndex
            /\ rwPc' = "done"
    /\ calls' = calls + 1
    /\ UNCHANGED <<inputCode, stats>>
    /\ UNCHANGED <<pmVars, initVars, packageInstalled, execVars, resetVars,
                   trVars, runVars>>

\* ------------------------------------------ PyodideExecutor.execute
\* the ExecutionResult under construction / returned; outcome "rejected"
\* stands for a call whose promise rejects instead of resolving to a result;
\* raised records that the snippet raised inside the interpreter
NoResult ==
    [outcome |-> "none", success |-> FALSE, error |-> "null",
     executionTime |-> 0, memoryUsage |-> "null", raised |-> FALSE]

Rejected ==
    [outcome |-> "rejected", success |-> FALSE, error |-> "null",
     executionTime |-> 0, memoryUsage |-> "null", raised |-> FALSE]

\* execute(), the try block on the path where the snippet runs to its end:
\* streams redirected, snippet run, output read, streams restored;
\* executionTime = executionEndTime - executionStartTime (the run only);
\* error = stderr || null
executeSuccess_KeepsCapture(measurePerformance, stderrText, dSetup, dRun) ==
    /\ sysStreams' = "capture"
    /\ execResult' = [outcome |-> IF measurePerformance THEN "pending" ELSE "resolved",
                       success |-> TRUE,
                      error |-> IF stderrText THEN "stderr" ELSE "null",
                      executionTime |-> dRun, memoryUsage |-> "null",
                      raised |-> FALSE]
executeSuccess(measurePerformance, stderrText, dSetup, dRun) ==
    /\ sysStreams' = "original"
    /\ execResult' = [outcome |-> IF measurePerformance THEN "pending" ELSE "resolved",
                       success |-> TRUE,
                      error |-> IF stderrText THEN "stderr" ELSE "null",
                      executionTime |-> dRun, memoryUsage |-> "null",
                      raised |-> FALSE]

\* execute(), the path where runPython(patchedCode) throws: the rest of the
\* try block is skipped and the catch block fills the result;
\* executionTime = performance.now() - startTime (redirection and run)
executeFailure_NoTime(measurePerformance, dSetup, dRun) ==
    /\ sysStreams' = "capture"
    /\ execResult' = [outcome |-> IF measurePerformance THEN "pending" ELSE "resolved",
                       success |-> FALSE,
                      error |-> "message", executionTime |-> 0,
                      memoryUsage |-> "null", raised |-> TRUE]
executeFailure(measurePerformance, dSetup, dRun) ==
    /\ sysStreams' = "capture"
    /\ execResult' = [outcome |-> IF measurePerformance THEN "pending" ELSE "resolved",
                       success |-> FALSE,
                      error |-> "message", executionTime |-> dSetup + dRun,
                      memoryUsage |-> "null", raised |-> TRUE]

\* const filePatch = `\ntry:\n    __file__\nexcept NameError: ...`
filePatch == <<"filePatch">>

\* the code arguments of execute() and transformAndExecute(): a value that
\* is no string, a prefix form, and three lines with a plain import between
\* two lines like QualifiedLine
SnippetCodes ==
    { NonText, <<"from", " ", "src.", "x">>,
      QualifiedLine \o <<"\n", "import", " ", "dynamic_array", "\n">>
          \o QualifiedLine }

\* the outcome of the first half of a call: the promise rejects before
\* anything is handed to the interpreter, or the text to hand over; with
\* the lastIndex values the patterns hold by then
RejectedEarly(lastIdx) ==
    [rejected |-> TRUE, transformedCode |-> <<>>, lastIndex |-> lastIdx]
ToRun(transformedCode, lastIdx) ==
    [rejected |-> FALSE, transformedCode |-> transformedCode,
     lastIndex |-> lastIdx]

\* const transformation = this.importPathResolver.transformCode(code);
\* transformedCode = transformation.transformedCode
rewritten(transformation) ==
    ToRun(transformation.transformedCode, transformation.lastIndex)

\* execute(code, options) on a resolver whose line patterns hold lastIdx,
\* up to let transformedCode: the guard, then the rewrite if the package
\* counts as installed
executeRewrite(code, lastIdx) ==
    IF ~isInitialized
    THEN \* throw new Error('PyodideExecutor not initialized')
         RejectedEarly(lastIdx)
    ELSE IF packageInstalled
    THEN IF code = NonText
         THEN \* transformCode(code): code.match is not a function
              RejectedEarly(lastIdx)
         ELSE rewritten(transformCode(code, lastIdx))
    ELSE ToRun(code, lastIdx)

\* execute(transformedCode, options) as transformAndExecute calls it
executeTransformed(transformation) ==
    executeRewrite(transformation.transformedCode, transformation.lastIndex)

\* transformAndExecute(code, options), up to the text execute() hands over:
\* transformCode(code), then execute(transformedCode, options); the catch
\* block re-throws
transformAndExecuteRewrite(code) ==
    IF code = NonText
    THEN \* transformCode(code): code.match is not a function
         RejectedEarly(lastIndex)
    ELSE executeTransformed(transformCode(code, lastIndex))

\* execute(), from const patchedCode = filePatch + '\n' + transformedCode up
\* to the await of getMemoryUsage().  raises: the snippet raises inside the
\* interpreter; loops: it never ends; stderrText: it wrote to stderr; dSetup,
\* dRun: the clock ticks taken by the redirection call and by the run
executeRun(first, measurePerformance, raises, loops, stderrText, dSetup, dRun) ==
    /\ lastIndex' = first.lastIndex
    /\ IF first.rejected
       THEN /\ execResult' = Rejected
            /\ execPc' = "returned"
            /\ patchedCode' = <<>>
            /\ UNCHANGED sysStreams
       ELSE /\ patchedCode' = filePatch \o <<"\n">> \o first.transformedCode
            /\ IF loops
               THEN \* this.pyodide.runPython(patchedCode) does not return;
                    \* nothing reads executionOptions.timeout
                    /\ sysStreams' = "capture"
                    /\ execPc' = "running"
                    /\ UNCHANGED execResult
               ELSE /\ IF raises
                       THEN executeFailure(measurePerformance, dSetup, dRun)
                       ELSE executeSuccess(measurePerformance, stderrText,
                                           dSetup, dRun)
                    /\ execPc' = IF measurePerformance THEN "memory"
                                 ELSE "returned"

\* the inputs of a call that the path taken never reads have one value: a
\* rejected call and a snippet that never ends read none of them, a snippet
\* that raises leaves no stderr text to read, and the time of the
\* redirection call counts only when the snippet raises
InputsRead(first, measurePerformance, raises, loops, stderrText, dSetup, dRun) ==
    /\ (first.rejected \/ loops) =>
           /\ ~measurePerformance /\ ~raises /\ ~stderrText
           /\ dSetup = 1 /\ dRun = 1
    /\ first.rejected => ~loops
    /\ raises => ~stderrText
    /\ ~raises => dSetup = 1

\* one execute() call with its inputs
ExecuteCall ==
    /\ execPc = "idle"
    /\ \E code \in SnippetCodes :
       \E first \in {executeRewrite(code, lastIndex)} :
       \E measurePerformance, raises, loops, stderrText \in BOOLEAN :
       \E dSetup, dRun \in 1..MaxTick :
          /\ InputsRead(first, measurePerformance, raises, loops,
                        stderrText, dSetup, dRun)
          /\ executeRun(first, measurePerformance, raises, loops,
                        stderrText, dSetup, dRun)
          /\ execCode' = code
    /\ execMethod' = "execute"
    /\ UNCHANGED <<calls, inputCode, transformed, rwPc, stats>>
    /\ UNCHANGED <<pmVars, initVars, packageInstalled, resetVars, trVars,
                   runVars>>

\* one transformAndExecute() call with its inputs
TransformAndExecuteCall ==
    /\ execPc = "idle"
    /\ \E code \in SnippetCodes :
       \E first \in {transformAndExecuteRewrite(code)} :
       \E measurePerformance, raises, loops, stderrText \in BOOLEAN :
       \E dSetup, dRun \in 1..MaxTick :
          /\ InputsRead(first, measurePerformance, raises, loops,
                        stderrText, dSetup, dRun)
          /\ executeRun(first, measurePerformance, raises, loops,
                        stderrText, dSetup, dRun)
          /\ execCode' = code
    /\ execMethod' = "transformAndExecute"
    /\ UNCHANGED <<calls, inputCode, transformed, rwPc, stats>>
    /\ UNCHANGED <<pmVars, initVars, packageInstalled, resetVars, trVars,
                   runVars>>

\* await this.getMemoryUsage() settles (its own try/catch turns a failure
\* into {available: false}); return executionResult
getMemoryUsageDone(ok) ==
    /\ execPc = "memory"
    /\ execResult' = [execResult EXCEPT
           !.memoryUsage = IF ok THEN "available" ELSE "unavailable",
           !.outcome = "resolved"]
    /\ execPc' = "returned"
    /\ UNCHANGED <<sysStreams, execMethod, execCode, patchedCode>>
    /\ UNCHANGED <<pmVars, initVars, packageInstalled, resetVars,
                   rwVars, trVars, runVars>>

\* the caller of execute()/transformAndExecute() takes the outcome
executeReturn ==
    /\ execPc = "returned"
    /\ execPc' = "idle"
    /\ execResult' = NoResult
    /\ execMethod' = "none"
    /\ execCode' = <<>>
    /\ patchedCode' = <<>>
    /\ UNCHANGED <<sysStreams, pmVars, initVars, packageInstalled,
                   resetVars, rwVars, trVars, runVars>>

\* -------------------------------------------------------- TestRunner
\* A test output is a sequence of words, "\n" ending a line.
\* the sentinel lines the harness prints around its payload
StartMarker == <<"TEST_RESULTS_START">>
EndMarker == <<"TEST_RESULTS_END">>

\* the lines an output is made of: the sentinels, pieces of JSON text ("{o}"
\* spells one outcome object; the pieces cannot spell a nested value),
\* pytest-like report lines and a word alone
Lines ==
    { StartMarker, EndMarker,
      <<"[", "]">>, <<"[", "{o}", "]">>, <<"[", "{o}">>, <<",", "{o}">>,
      <<"]">>, <<"{o}">>,
      <<"f", "::", "t", " ", "PASSED">>, <<"f", "::", "t", " ", "FAILED">>,
      <<"ERROR", " ", "f", "::", "t">>, <<"f", "::", "t">>, <<"PASSED">> }

\* the sequences of at most n lines
RECURSIVE LineSeqs(_)
LineSeqs(n) ==
    IF n = 0 THEN {<<>>}
    ELSE LET shorter == LineSeqs(n - 1)
         IN  shorter \cup {Append(ls, line) : ls \in shorter, line \in Lines}

\* an output argument that is not a string
NonTextOutput == <<"undefined">>

\* the output arguments of the parseTestResults call under study
Outputs == {JoinLines(ls, 1) : ls \in LineSeqs(MaxLines)} \cup {NonTextOutput}

\* the fileName arguments: runTestFile passes testFile.name, runSingleTest
\* 'single_test'
FileNames == {"test_analyzer.py", "single_test"}

\* no parseTestResults call has returned yet
NoResults == [threw |-> FALSE, results |-> <<>>]

\* parseTestResults, the loop over the lines n..: jsonData
RECURSIVE jsonData(_, _, _, _)
jsonData(lines, n, inResults, data) ==
    IF n > Len(lines) THEN data
    ELSE IF lines[n] = StartMarker THEN jsonData(lines, n + 1, TRUE, data)
    ELSE IF lines[n] = EndMarker THEN data
    ELSE IF inResults THEN jsonData(lines, n + 1, TRUE, data \o lines[n])
    ELSE jsonData(lines, n + 1, FALSE, data)

\* the words between the brackets of a JSON array spell its elements:
\* objects separated by commas
ElementsOk(inner) ==
    \/ inner = <<>>
    \/ /\ Len(inner) % 2 = 1
       /\ \A k \in 1..Len(inner) :
              inner[k] = IF k % 2 = 1 THEN "{o}" ELSE ","

\* JSON.parse(jsonData): an array with its number of elements, an object, or
\* a SyntaxError
JSONparse(data) ==
    IF data = <<"{o}">> THEN [kind |-> "object", length |-> 0]
    ELSE IF /\ Len(data) >= 2
            /\ data[1] = "[" /\ data[Len(data)] = "]"
            /\ ElementsOk(SubSeq(data, 2, Len(data) - 1))
    THEN [kind |-> "array", length |-> (Len(data) - 1) \div 2]
    ELSE [kind |-> "SyntaxError", length |-> 0]

\* the outcome object "{o}" as the harness prints it
PayloadOutcome ==
    [name |-> <<"o">>, status |-> "passed", output |-> <<>>,
     file |-> "unknown"]

\* catch (error) { return [{name: 'parse_error', status: 'error', ...}] }
parseError_Rethrows(output, fileName) ==
    [threw |-> TRUE, results |-> <<>>]
parseError(output, fileName) ==
    [threw |-> FALSE,
     results |-> << [name |-> <<"parse_error">>, status |-> "error",
                     output |-> output, file |-> fileName] >>]

\* the words of line p.. up to the first blank: split(' ')[0]
RECURSIVE FirstWord(_, _)
FirstWord(line, p) ==
    IF p > Len(line) \/ line[p] = " " THEN <<>>
    ELSE <<line[p]>> \o FirstWord(line, p + 1)

\* parts[parts.length - 1] of line.split('::'), as the position it starts at
LastPart(line) ==
    1 + CHOOSE p \in 0..Len(line) :
            /\ p = 0 \/ line[p] = "::"
            /\ \A q \in (p + 1)..Len(line) : line[q] # "::"

\* parseFallbackResults: the outcome pushed for one matching line
fallbackOutcome(line, fileName) ==
    [name |-> FirstWord(line, LastPart(line)),
     status |-> IF Includes(line, <<"PASSED">>) THEN "passed"
                ELSE IF Includes(line, <<"FAILED">>) THEN "failed"
                ELSE "error",
     output |-> line, file |-> fileName]

\* parseFallbackResults(output, fileName), the loop over the lines n..
RECURSIVE parseFallbackResults(_, _, _)
parseFallbackResults(lines, n, fileName) ==
    IF n > Len(lines) THEN <<>>
    ELSE IF /\ Includes(lines[n], <<"::">>)
            /\ \/ Includes(lines[n], <<"PASSED">>)
               \/ Includes(lines[n], <<"FAILED">>)
               \/ Includes(lines[n], <<"ERROR">>)
    THEN <<fallbackOutcome(lines[n], fileName)>>
             \o parseFallbackResults(lines, n + 1, fileName)
    ELSE parseFallbackResults(lines, n + 1, fileName)

\* parseTestResults, from if (jsonData) on
parseJsonData(output, fileName, lines, data) ==
    IF data # <<>>
    THEN IF JSONparse(data).kind = "array"
         THEN [threw |-> FALSE,
               results |-> [k \in 1..JSONparse(data).length |->
                               [PayloadOutcome EXCEPT !.file = fileName]]]
         ELSE \* JSON.parse throws, or parsed.map is not a function
              parseError(output, fileName)
    ELSE [threw |-> FALSE,
          results |-> parseFallbackResults(lines, 1, fileName)]

\* parseTestResults, from the loop on
parseLines(output, fileName, lines) ==
    parseJsonData(output, fileName, lines, jsonData(lines, 1, FALSE, <<>>))

\* parseTestResults(output, fileName)
parseTestResults(output, fileName) ==
    IF output = NonTextOutput
    THEN \* output.split throws inside the try block
         parseError(output, fileName)
    ELSE parseLines(output, fileName, SplitLines(output, 1, <<>>))

\* ------------------------------------------ TestRunner.runChapterTests
RunIds == 1..MaxRunCalls

\* the chapterId arguments
Chapters == {"chapter_01", "chapter_02"}

\* getTestFiles(chapterId): the names of the three test files
testFiles ==
    <<"test_analyzer.py", "test_dynamic_array.py", "test_hash_table.py">>

\* result.output of an execute(testScript) call that returned: the payload
\* of two outcomes between the sentinels, and '' (the script raised before
\* it printed anything, and execute caught the error)
TestOutputs ==
    { JoinLines(<<StartMarker, <<"[", "{o}">>, <<",", "{o}">>, <<"]">>,
                  EndMarker>>, 1),
      <<>> }

\* nothing stored for a chapter: testResults = new Map()
NotStored == [stored |-> FALSE, results |-> <<>>]

\* constructor(pyodideExecutor), and no runChapterTests call made
TestRunnerNew ==
    /\ isRunning = FALSE
    /\ testResults = [ch \in Chapters |-> NotStored]
    /\ runPc = [c \in RunIds |-> "idle"]
    /\ runChapter = [c \in RunIds |-> "chapter_01"]
    /\ runResults = [c \in RunIds |-> <<>>]
    /\ runFile = [c \in RunIds |-> 0]
    /\ runPending = [c \in RunIds |-> "none"]
    /\ runReturn = [c \in RunIds |-> "none"]
    /\ runLog = [c \in RunIds |-> <<>>]

\* the continuation of the caller that awaits a settled runChapterTests
\* call is a microtask: it runs before any other callback of the test runner
NoneSettled == \A c \in RunIds : runPc[c] # "returned"

\* runTestFile(testFile) up to its await: execute(testScript, ...) rejects
\* at once when the executor is not initialized, and runs the script
\* otherwise
runTestFile == IF isInitialized THEN "runs" ELSE "throws"

\* the catch block of the loop: results.push({name: testFile.name,
\* status: 'error', duration: 0, output: '', error: ..., file: ...})
caughtOutcomes_Dropped(fileName) == <<>>
caughtOutcomes(fileName) ==
    << [name |-> <<fileName>>, status |-> "error", output |-> <<>>,
        file |-> fileName] >>

\* what one pass of the loop body pushes: the outcomes runTestFile
\* returned, or the catch block's outcome when it threw
fileResults(pending, output, fileName) ==
    IF pending = "throws" \/ parseTestResults(output, fileName).threw
    THEN caughtOutcomes(fileName)
    ELSE parseTestResults(output, fileName).results

\* runChapterTests(chapterId) up to await this.getTestFiles(chapterId)
runChapterTests_NoGuard(c, chapterId) ==
    /\ ThreadFree
    /\ NoneSettled
    /\ runPc[c] = "idle"
    /\ isRunning' = TRUE
    /\ runPc' = [runPc EXCEPT ![c] = "getTestFiles"]
    /\ runChapter' = [runChapter EXCEPT ![c] = chapterId]
    /\ UNCHANGED <<runReturn, testResults, runResults, runFile, runPending,
                   runLog>>
    /\ UNCHANGED <<pmVars, initVars, packageInstalled, execVars, resetVars,
                   rwVars, trVars>>
runChapterTests(c, chapterId) ==
    /\ ThreadFree
    /\ NoneSettled
    /\ runPc[c] = "idle"
    /\ IF isRunning
       THEN \* throw new Error('Test execution already in progress')
            /\ runPc' = [runPc EXCEPT ![c] = "returned"]
            /\ runReturn' = [runReturn EXCEPT ![c] = "inProgress"]
            /\ UNCHANGED <<isRunning, runChapter>>
       ELSE /\ isRunning' = TRUE
            /\ runPc' = [runPc EXCEPT ![c] = "getTestFiles"]
            /\ runChapter' = [runChapter EXCEPT ![c] = chapterId]
            /\ UNCHANGED runReturn
    /\ UNCHANGED <<testResults, runResults, runFile, runPending, runLog>>
    /\ UNCHANGED <<pmVars, initVars, packageInstalled, execVars, resetVars,
                   rwVars, trVars>>

\* getTestFiles has resolved with the three files; the loop calls
\* runTestFile for the first one
getTestFilesDone(c) ==
    /\ ThreadFree
    /\ NoneSettled
    /\ runPc[c] = "getTestFiles"
    /\ runPc' = [runPc EXCEPT ![c] = "runTestFile"]
    /\ runFile' = [runFile EXCEPT ![c] = 1]
    /\ runPending' = [runPending EXCEPT ![c] = runTestFile]
    /\ UNCHANGED <<isRunning, testResults, runChapter, runResults, runReturn,
                   runLog>>
    /\ UNCHANGED <<pmVars, initVars, packageInstalled, execVars, resetVars,
                   rwVars, trVars>>

\* the rest of runChapterTests after the last file: testResults.set,
\* return results, and the finally block
storeAndReturn(c, results) ==
    /\ testResults' = [testResults EXCEPT ![runChapter[c]] =
                          [stored |-> TRUE, results |-> results]]
    /\ runPc' = [runPc EXCEPT ![c] = "returned"]
    /\ runReturn' = [runReturn EXCEPT ![c] = "results"]
    /\ isRunning' = FALSE
    /\ UNCHANGED <<runFile, runPending>>

\* the awaited runTestFile has settled (output: what the script printed,
\* read when execute returned): the loop body pushes, then either calls
\* runTestFile for the next file or leaves the loop
runTestFileDone(c, output) ==
    /\ ThreadFree
    /\ NoneSettled
    /\ runPc[c] = "runTestFile"
    /\ runPending[c] = "throws" => output = <<>>
    /\ runResults' = [runResults EXCEPT ![c] =
            @ \o fileResults(runPending[c], output, testFiles[runFile[c]])]
    /\ runLog' = [runLog EXCEPT ![c] =
            Append(@, [file |-> testFiles[runFile[c]],
                       threw |-> runPending[c] = "throws",
                       output |-> output])]
    /\ IF runFile[c] < Len(testFiles)
       THEN /\ runFile' = [runFile EXCEPT ![c] = @ + 1]
            /\ runPending' = [runPending EXCEPT ![c] = runTestFile]
            /\ UNCHANGED <<isRunning, testResults, runPc, runReturn>>
       ELSE storeAndReturn(c, runResults'[c])
    /\ UNCHANGED runChapter
    /\ UNCHANGED <<pmVars, initVars, packageInstalled, execVars, resetVars,
                   rwVars, trVars>>

\* the caller has taken the outcome of its runChapterTests call
runChapterTestsReturn(c) ==
    /\ ThreadFree
    /\ runPc[c] = "returned"
    /\ runPc' = [runPc EXCEPT ![c] = "idle"]
    /\ runReturn' = [runReturn EXCEPT ![c] = "none"]
    /\ runResults' = [runResults EXCEPT ![c] = <<>>]
    /\ runFile' = [runFile EXCEPT ![c] = 0]
    /\ runPending' = [runPending EXCEPT ![c] = "none"]
    /\ runLog' = [runLog EXCEPT ![c] = <<>>]
    /\ UNCHANGED <<isRunning, testResults, runChapter>>
    /\ UNCHANGED <<pmVars, initVars, packageInstalled, execVars, resetVars,
                   rwVars, trVars>>

\* the parseTestResults call under study
parseTestResultsCall ==
    /\ trPc = "ready"
    /\ trResults' = parseTestResults(trOutput, trFileName)
    /\ trPc' = "done"
    /\ UNCHANGED <<trOutput, trFileName>>
    /\ UNCHANGED <<pmVars, initVars, packageInstalled, execVars, resetVars,
                   rwVars, runVars>>

\* ------------------------------------------------------ specification
Init ==
    /\ isInstalled = FALSE
    /\ isInstalling = FALSE
    /\ installationProgress = IdleProgress
    /\ instPc = [i \in InstallIds |-> "idle"]
    /\ instCaller = [i \in InstallIds |-> PanelCaller]
    /\ instResult = [i \in InstallIds |-> "none"]
    /\ instWork = [i \in InstallIds |-> <<>>]
    /\ succeededSinceReset = FALSE
    /\ pyodide = FALSE
    /\ isInitialized = FALSE
    /\ isInitializing = FALSE
    /\ packageInstalled = FALSE
    /\ initPc = [j \in InitIds |-> "idle"]
    /\ initResult = [j \in InitIds |-> "none"]
    /\ execPc = "idle"
    /\ execResult = NoResult
    /\ sysStreams = "original"
    /\ execMethod = "none"
    /\ execCode = <<>>
    /\ patchedCode = <<>>
    /\ resetPc = "idle"
    /\ lastIndex = [r \in RuleIds |-> 0]
    /\ calls = 0
    /\ inputCode = <<>>
    /\ transformed = NoTransformation
    /\ stats = ZeroStats
    /\ rwPc = "idle"
    /\ trOutput = <<>>
    /\ trFileName = "single_test"
    /\ trResults = NoResults
    /\ trPc = "idle"
    /\ TestRunnerNew

\* the package installer with its callers: the application's initialize()
\* call, the status panel and PyodideExecutor.reset()
Next ==
    \/ resetPackage
    \/ \E i \in InstallIds : retryInstall(i)
    \/ \E i \in InstallIds : retryInstallReturn(i)
    \/ \E i \in InstallIds : installStep(i)
    \/ initialize(AppInit)
    \/ \E ok \in BOOLEAN : loadPyodideDone(AppInit, ok)
    \/ \E ok \in BOOLEAN : versionDone(AppInit, ok)
    \/ \E ok \in BOOLEAN : setupDone(AppInit, ok)
    \/ \E i \in InstallIds : installMasteringPerformantCode(AppInit, i)
    \/ initializeFinish(AppInit)
    \/ initializeReturn(AppInit)
    \/ executorReset
    \/ \E ok \in BOOLEAN : executorResetDone(ok)
    \/ executorResetReturn

Spec == Init /\ [][Next]_vars

\* the execution engine: initialize(), execute(), transformAndExecute() and
\* PyodideExecutor.reset()
ExecNext ==
    \/ \E i \in InstallIds : installStep(i)
    \/ \E j \in InitIds : initialize(j)
    \/ \E j \in InitIds : initializeWait(j)
    \/ \E j \in InitIds, ok \in BOOLEAN : loadPyodideDone(j, ok)
    \/ \E j \in InitIds, ok \in BOOLEAN : versionDone(j, ok)
    \/ \E j \in InitIds, ok \in BOOLEAN : setupDone(j, ok)
    \/ \E j \in InitIds, i \in InstallIds : installMasteringPerformantCode(j, i)
    \/ \E j \in InitIds : initializeFinish(j)
    \/ \E j \in InitIds : initializeReturn(j)
    \/ ExecuteCall
    \/ TransformAndExecuteCall
    \/ \E ok \in BOOLEAN : getMemoryUsageDone(ok)
    \/ executeReturn
    \/ executorReset
    \/ \E ok \in BOOLEAN : executorResetDone(ok)
    \/ executorResetReturn

ExecSpec == Init /\ [][ExecNext]_vars

\* the execution engine with the event loop resuming execute() once the
\* awaited getMemoryUsage() has settled
ExecFairSpec ==
    ExecSpec /\ WF_vars(\E ok \in BOOLEAN : getMemoryUsageDone(ok))

\* the import rewriter: one resolver, earlier transformCode calls and the
\* call under study
RewriteInit ==
    /\ isInstalled = FALSE
    /\ isInstalling = FALSE
    /\ installationProgress = IdleProgress
    /\ instPc = [i \in InstallIds |-> "idle"]
    /\ instCaller = [i \in InstallIds |-> PanelCaller]
    /\ instResult = [i \in InstallIds |-> "none"]
    /\ instWork = [i \in InstallIds |-> <<>>]
    /\ succeededSinceReset = FALSE
    /\ pyodide = FALSE
    /\ isInitialized = FALSE
    /\ isInitializing = FALSE
    /\ packageInstalled = FALSE
    /\ initPc = [j \in InitIds |-> "idle"]
    /\ initResult = [j \in InitIds |-> "none"]
    /\ execPc = "idle"
    /\ execResult = NoResult
    /\ sysStreams = "original"
    /\ execMethod = "none"
    /\ execCode = <<>>
    /\ patchedCode = <<>>
    /\ resetPc = "idle"
    /\ lastIndex = [r \in RuleIds |-> 0]
    /\ calls = 0
    /\ inputCode \in Codes
    /\ transformed = NoTransformation
    /\ stats = ZeroStats
    /\ rwPc = "ready"
    /\ trOutput = <<>>
    /\ trFileName = "single_test"
    /\ trResults = NoResults
    /\ trPc = "idle"
    /\ TestRunnerNew

RewriteNext ==
    \/ \E text \in EarlierCodes : earlierTransformCode(text)
    \/ transformCodeCall

RewriteSpec == RewriteInit /\ [][RewriteNext]_vars

\* the test-result parser: one parseTestResults call
TestInit ==
    /\ isInstalled = FALSE
    /\ isInstalling = FALSE
    /\ installationProgress = IdleProgress
    /\ instPc = [i \in InstallIds |-> "idle"]
    /\ instCaller = [i \in InstallIds |-> PanelCaller]
    /\ instResult = [i \in InstallIds |-> "none"]
    /\ instWork = [i \in InstallIds |-> <<>>]
    /\ succeededSinceReset = FALSE
    /\ pyodide = FALSE
    /\ isInitialized = FALSE
    /\ isInitializing = FALSE
    /\ packageInstalled = FALSE
    /\ initPc = [j \in InitIds |-> "idle"]
    /\ initResult = [j \in InitIds |-> "none"]
    /\ execPc = "idle"
    /\ execResult = NoResult
    /\ sysStreams = "original"
    /\ execMethod = "none"
    /\ execCode = <<>>
    /\ patchedCode = <<>>
    /\ resetPc = "idle"
    /\ lastIndex = [r \in RuleIds |-> 0]
    /\ calls = 0
    /\ inputCode = <<>>
    /\ transformed = NoTransformation
    /\ stats = ZeroStats
    /\ rwPc = "idle"
    /\ trOutput \in Outputs
    /\ trFileName \in FileNames
    /\ trResults = NoResults
    /\ trPc = "ready"
    /\ TestRunnerNew

TestNext == parseTestResultsCall

TestSpec == TestInit /\ [][TestNext]_vars

\* the test runner, constructed while the application's initialize() call
\* has installed the package and is about to resume: runChapterTests calls
\* before and after the executor is initialized
ChapterInit ==
    /\ isInstalled = TRUE
    /\ isInstalling = FALSE
    /\ installationProgress =
           [status |-> "complete", percentage |-> 100,
            message |-> "Package installed successfully!"]
    /\ instPc = [i \in InstallIds |-> "idle"]
    /\ instCaller = [i \in InstallIds |-> PanelCaller]
    /\ instResult = [i \in InstallIds |-> "none"]
    /\ instWork = [i \in InstallIds |-> <<>>]
    /\ succeededSinceReset = TRUE
    /\ pyodide = TRUE
    /\ isInitialized = FALSE
    /\ isInitializing = TRUE
    /\ packageInstalled = TRUE
    /\ initPc = [j \in InitIds |-> IF j = AppInit THEN "finish" ELSE "idle"]
    /\ initResult = [j \in InitIds |-> "none"]
    /\ execPc = "idle"
    /\ execResult = NoResult
    /\ sysStreams = "original"
    /\ execMethod = "none"
    /\ execCode = <<>>
    /\ patchedCode = <<>>
    /\ resetPc = "idle"
    /\ lastIndex = [r \in RuleIds |-> 0]
    /\ calls = 0
    /\ inputCode = <<>>
    /\ transformed = NoTransformation
    /\ stats = ZeroStats
    /\ rwPc = "idle"
    /\ trOutput = <<>>
    /\ trFileName = "single_test"
    /\ trResults = NoResults
    /\ trPc = "idle"
    /\ TestRunnerNew

ChapterNext ==
    \/ \E c \in RunIds, chapterId \in Chapters : runChapterTests(c, chapterId)
    \/ \E c \in RunIds : getTestFilesDone(c)
    \/ \E c \in RunIds, output \in TestOutputs : runTestFileDone(c, output)
    \/ \E c \in RunIds : runChapterTestsReturn(c)
    \/ initializeFinish(AppInit)
    \/ initializeReturn(AppInit)

ChapterSpec == ChapterInit /\ [][ChapterNext]_vars

\* ------------------------------------------------------------ claims
\* positions of a call that is inside an install run (between
\* isInstalling = true and the finally block)
RunPcs == {"loadPackage", "micropipInstall", "verify1", "verify2",
           "verifiedTrue", "verifiedFalse"}

\* the step is an installPackage call made on slot i
CallMade(i) == instPc[i] = "idle" /\ instPc'[i] # "idle"

\* the step leaves the installer's fields and the other calls alone
NoSideEffect(i) ==
    /\ UNCHANGED <<isInstalled, isInstalling, installationProgress>>
    /\ \A k \in InstallIds \ {i} :
           instPc'[k] = instPc[k] /\ instWork'[k] = instWork[k]

\* the work log holds an entry for the operation with the given argument
Logged(work, name, arg) ==
    \E n \in 1..Len(work) : work[n].op = name /\ work[n].arg = arg

\* C1: once an installPackage call has succeeded and no reset() has happened
\* since, every further installPackage call returns true, issues no
\* interpreter call and no progress update, and changes nothing.
C1_IdempotentInstall ==
    [][\A i \in InstallIds :
          (succeededSinceReset /\ CallMade(i)) =>
              /\ instPc'[i] = "returned"
              /\ instResult'[i] = "true"
              /\ instWork'[i] = <<>>
              /\ NoSideEffect(i)]_vars

\* a call made after a success has returned true with an empty work log
C1_Witness ==
    /\ succeededSinceReset
    /\ \E i \in InstallIds :
          instPc[i] = "returned" /\ instResult[i] = "true" /\ instWork[i] = <<>>

\* C2: an installPackage call made while isInstalling is true and the
\* package is not installed returns false at once, issues no interpreter
\* call and no progress update, and leaves isInstalled, isInstalling and the
\* snapshot unchanged.
C2_ConcurrentCallRejected ==
    [][\A i \in InstallIds :
          (isInstalling /\ ~isInstalled /\ CallMade(i)) =>
              /\ instPc'[i] = "returned"
              /\ instResult'[i] = "false"
              /\ instWork'[i] = <<>>
              /\ NoSideEffect(i)]_vars

\* a call has returned false while the run of another call is in flight
C2_Witness ==
    \E i, k \in InstallIds :
        /\ instPc[i] = "returned" /\ instResult[i] = "false"
        /\ instWork[i] = <<>>
        /\ instPc[k] \in RunPcs
        /\ isInstalling /\ ~isInstalled

\* C3 (as claimed): under every interleaving of installPackage and reset()
\* calls at most one install run is in flight.
C3_AtMostOneRun ==
    Cardinality({i \in InstallIds : instPc[i] \in RunPcs}) <= 1

\* C4 (as claimed): a run that fails ends with snapshot status 'error',
\* isInstalled false and isInstalling false, and throws.
C4_FailureEndsInError ==
    [][\A i \in InstallIds :
          (instResult[i] # "threw" /\ instResult'[i] = "threw") =>
              /\ installationProgress'.status = "error"
              /\ ~isInstalled'
              /\ ~isInstalling']_vars

C6_NeverRejects == execResult.outcome # "rejected"

\* C7 (as claimed): once an execute() call has returned, sys.stdout and
\* sys.stderr are the original channels again.
C7_StreamsRestored ==
    execPc \in {"returned", "idle"} => sysStreams = "original"

C9_GateMatchesInstaller ==
    ( /\ \A i \in InstallIds : instPc[i] = "idle"
      /\ \A j \in InitIds : initPc[j] = "idle"
      /\ resetPc = "idle" ) => (packageInstalled = isInstalled)

\* a pattern of either rule table matches somewhere in the text (the line
\* patterns within one line)
HasRecognizedForm(text) ==
    \/ \E k \in 1..Len(importTransformations) :
           Test(importTransformations[k].pattern, text)
    \/ LET lines == SplitLines(text, 1, <<>>)
       IN  \E n \in 1..Len(lines), r \in RuleIds :
               Test(relativeImportMappings[r].pattern, lines[n])

\* C10: transformCode on a text without any recognized import form returns
\* the text unchanged and an empty diagnostics.transformations list.
C10_NoOpRewrite ==
    (rwPc = "done" /\ ~HasRecognizedForm(inputCode)) =>
        /\ transformed.transformedCode = inputCode
        /\ transformed.transformations = <<>>

\* an import-like text without recognized form went through transformCode
\* after an earlier call on the same resolver
C10_Witness ==
    /\ rwPc = "done"
    /\ ~HasRecognizedForm(inputCode)
    /\ Includes(inputCode, <<"import", " ">>)
    /\ calls > 1
    /\ transformed.transformedCode = inputCode
    /\ transformed.warnings = <<"No transformations were applied">>

\* the lastIndex values of a resolver no call was made on
FreshIndex == [r \in RuleIds |-> 0]

\* C11 (as claimed): rewriting is idempotent: transformCode applied to the
\* text a transformCode call returned gives that text back.
C11_Idempotent ==
    rwPc = "done" =>
        \E again \in {transformCode(transformed.transformedCode, lastIndex)} :
            again.transformedCode = transformed.transformedCode

\* the text holds, at position p, an import keyword, whitespace and the
\* generic root prefix
IsRootForm(text, p) ==
    /\ text[p] \in {"from", "import"}
    /\ p + 1 <= Len(text) /\ text[p + 1] \in Whitespace
    /\ SkipSpaces(text, p + 1) <= Len(text)
    /\ text[SkipSpaces(text, p + 1)] = "src."

\* number of occurrences of '<keyword> src.' in the text
RootOccurrences(text, keyword) ==
    Cardinality({p \in 1..Len(text) : text[p] = keyword /\ IsRootForm(text, p)})

\* the text p.. with every '<keyword> src.' turned into
\* '<keyword> mastering_performant_code.' and nothing else changed
RECURSIVE RootReplaced(_, _)
RootReplaced(text, p) ==
    IF p > Len(text) THEN <<>>
    ELSE IF IsRootForm(text, p)
    THEN <<text[p], " ", "mastering_performant_code.">>
             \o RootReplaced(text, SkipSpaces(text, p + 1) + 1)
    ELSE <<text[p]>> \o RootReplaced(text, p + 1)

\* the pattern.toString() of the prefix rule of an import keyword
RootRule(keyword) ==
    IF keyword = "from" THEN importTransformations[1].id
    ELSE importTransformations[2].id

\* C12: after transformCode no 'from src.' / 'import src.' is left; the
\* diagnostics hold, for each of the two rules, one entry whose count is the
\* number of occurrences (none without occurrence); when no other rule
\* applied, the text is the input with exactly the occurrences replaced; and
\* 'from src.chapter_01.dynamic_array import DynamicArray' gives exactly one
\* entry, with count 1.
C12_RootPrefixReplaced ==
    rwPc = "done" =>
        /\ \A p \in 1..Len(transformed.transformedCode) :
               ~IsRootForm(transformed.transformedCode, p)
        /\ \A keyword \in {"from", "import"} :
               \E entries \in {{k \in 1..Len(transformed.transformations) :
                       transformed.transformations[k].pattern
                           = RootRule(keyword)}} :
                   /\ Cardinality(entries)
                          = IF RootOccurrences(inputCode, keyword) = 0
                            THEN 0 ELSE 1
                   /\ \A k \in entries :
                          transformed.transformations[k].count
                              = RootOccurrences(inputCode, keyword)
        /\ (\A k \in 1..Len(transformed.transformations) :
                transformed.transformations[k].pattern
                    \in {RootRule("from"), RootRule("import")})
               => transformed.transformedCode = RootReplaced(inputCode, 1)
        /\ inputCode \in testCases =>
               transformed.transformations
                   = << [pattern |-> RootRule("from"), count |-> 1,
                         type |-> "src_transformation"] >>

\* a text with two 'from src.' and one 'import src.' went through
\* transformCode: two entries, the first with count 2
C12_Witness ==
    /\ rwPc = "done"
    /\ RootOccurrences(inputCode, "from") = 2
    /\ RootOccurrences(inputCode, "import") = 1
    /\ Len(transformed.transformations) = 2
    /\ transformed.transformations[1].count = 2
    /\ transformed.transformedCode = RootReplaced(inputCode, 1)

\* C13 (as claimed): transformCode never throws, whatever its argument.
C13_NeverThrows == rwPc # "threw"

\* C14 (as claimed): the result of transformCode(x) is the one a resolver
\* without earlier calls returns.
C14_NoStateBetweenCalls ==
    rwPc = "done" =>
        \E fresh \in {transformCode(inputCode, FreshIndex)} :
            /\ transformed.transformedCode = fresh.transformedCode
            /\ transformed.transformations = fresh.transformations
            /\ transformed.warnings = fresh.warnings
            /\ transformed.errors = fresh.errors

\* the percentages of the progress updates of a work log, in order
Percentages(work) ==
    LET updates == SelectSeq(work, LAMBDA e : e.op = "updateProgress")
    IN  [k \in 1..Len(updates) |-> updates[k].arg]

\* C15 (as claimed): a run that ends in success has delivered the updates
\* 0, 10, 30, 90, 100 in this order, and while the installer is Installing
\* the percentage of the snapshot never decreases.
C15_ProgressMonotone ==
    [][/\ \A i \in InstallIds :
              (instPc[i] \in RunPcs /\ instResult'[i] = "true") =>
                  Percentages(instWork'[i]) = <<0, 10, 30, 90, 100>>
       /\ (isInstalling /\ isInstalling') =>
              installationProgress'.percentage
                  >= installationProgress.percentage]_vars

\* C16 (as claimed): the step in which a run fails leaves in the snapshot
\* the percentage of the last milestone the run had reached.
C16_ErrorKeepsPercentage ==
    [][\A i \in InstallIds :
          (instResult[i] # "threw" /\ instResult'[i] = "threw") =>
              \E reached \in {Percentages(instWork[i])} :
                  /\ reached # <<>>
                  /\ installationProgress'.percentage = reached[Len(reached)]]_vars

\* the installer is Idle
Idle ==
    /\ ~isInstalled
    /\ ~isInstalling
    /\ installationProgress = IdleProgress

\* C17 (as claimed): a step that puts the idle snapshot back (reset())
\* leaves the installer Idle, and an Idle installer stays Idle in every
\* step that is not an installPackage call.
C17_ResetStaysIdle ==
    [][/\ (installationProgress # IdleProgress
           /\ installationProgress' = IdleProgress) => Idle'
       /\ (Idle /\ ~\E i \in InstallIds : CallMade(i)) => Idle']_vars

\* C18 (as claimed): every execute() / transformAndExecute() call that was
\* made eventually returns.
C18_ExecuteResolves == (execPc # "idle") ~> (execPc = "returned")


\* the text of n outcome objects as json.dumps prints a list of them
RECURSIVE ListPayload(_)
ListPayload(n) ==
    IF n = 0 THEN <<"[">>
    ELSE IF n = 1 THEN <<"[", "{o}">>
    ELSE ListPayload(n - 1) \o <<",", "{o}">>

\* the lines a..b of an output, written one after the other
RECURSIVE Between(_, _, _)
Between(lines, a, b) ==
    IF a > b THEN <<>> ELSE lines[a] \o Between(lines, a + 1, b)

\* a line the heuristic takes for a report line
HeuristicLine(line) ==
    /\ \E p \in 1..Len(line) : line[p] = "::"
    /\ \E p \in 1..Len(line) : line[p] \in {"PASSED", "FAILED", "ERROR"}

\* the positions of the heuristic lines among lines 1..n
HeuristicCount(lines, n) ==
    Cardinality({k \in 1..n : HeuristicLine(lines[k])})

\* the claim's cases on the lines of the output, for a returned list
ParsedAsClaimed(lines, results, fileName) ==
    /\ \A a \in 1..Len(lines) : \A b \in (a + 1)..Len(lines) :
         \A n \in 0..Len(lines) :
           ( /\ lines[a] = StartMarker
             /\ lines[b] = EndMarker
             /\ \A k \in 1..(b - 1) :
                    k # a => lines[k] \notin {StartMarker, EndMarker}
             /\ Between(lines, a + 1, b - 1) = ListPayload(n) \o <<"]">> )
           => /\ Len(results) = n
              /\ \A k \in 1..n :
                     /\ results[k].name = <<"o">>
                     /\ results[k].status = "passed"
                     /\ results[k].file = fileName
    /\ (\A k \in 1..Len(lines) : lines[k] \notin {StartMarker, EndMarker})
         => /\ Len(results) = HeuristicCount(lines, Len(lines))
            /\ \A k \in 1..Len(results) :
                   /\ results[k].file = fileName
                   /\ results[k].status \in {"passed", "failed", "error"}
                   /\ \E m \in 1..Len(lines) :
                          /\ HeuristicLine(lines[m])
                          /\ results[k].output = lines[m]
                          /\ HeuristicCount(lines, m) = k

\* C19: parseTestResults never throws and always returns a list; a list
\* payload between TEST_RESULTS_START and TEST_RESULTS_END comes back as its
\* outcomes, each with file set to the given file name; without the markers
\* the result is one outcome per line that has '::' together with PASSED,
\* FAILED or ERROR, in order, possibly none.
C19_ParseReturnsList ==
    trPc = "done" =>
        /\ ~trResults.threw
        /\ DOMAIN trResults.results = 1..Len(trResults.results)
        /\ trOutput # NonTextOutput =>
               ParsedAsClaimed(SplitLines(trOutput, 1, <<>>),
                               trResults.results, trFileName)

C19_Witness ==
    /\ trPc = "done"
    /\ trFileName = "test_analyzer.py"
    /\ trOutput = StartMarker \o <<"\n", "[", "{o}", "]", "\n">> \o EndMarker
    /\ ~trResults.threw
    /\ Len(trResults.results) = 1
    /\ trResults.results[1].file = "test_analyzer.py"

\* in the work log, entry k comes right after the entry before
RightAfter(work, k, before) == k > 1 /\ work[k - 1] = before

\* C20: in an install run every milestone update, with the synchronous call
\* of the registered callback it makes, comes right before the phase it
\* announces: 10% before loadPackage is called, 30% before
\* micropip.install, 90% before the first verification check, and 100% only
\* after the last verification check succeeded.
C20_MilestoneBeforePhase ==
    \A i \in InstallIds : \A k \in 1..Len(instWork[i]) :
        /\ instWork[i][k] = InterpEvent("loadPackage")
               => RightAfter(instWork[i], k, ProgressEvent(10))
        /\ instWork[i][k] = InterpEvent("micropip.install")
               => RightAfter(instWork[i], k, ProgressEvent(30))
        /\ instWork[i][k] = InterpEvent("verifyImport")
               => RightAfter(instWork[i], k, ProgressEvent(90))
        /\ instWork[i][k] = ProgressEvent(100)
               => RightAfter(instWork[i], k, SettleEvent("verifyChapters", TRUE))

C20_Witness ==
    \E i \in InstallIds :
        /\ instResult[i] = "true"
        /\ instWork[i] =
               << ProgressEvent(0), ProgressEvent(10),
                  InterpEvent("loadPackage"), SettleEvent("loadPackage", TRUE),
                  ProgressEvent(30), InterpEvent("micropip.install"),
                  SettleEvent("micropip.install", TRUE),
                  ProgressEvent(90), InterpEvent("verifyImport"),
                  SettleEvent("verifyImport", TRUE),
                  InterpEvent("verifyChapters"),
                  SettleEvent("verifyChapters", TRUE), ProgressEvent(100) >>

\* the first rule of the table, in table order, whose pattern matches the
\* line; 0 if none does
FirstMatch(line) ==
    IF \E r \in RuleIds : Test(relativeImportMappings[r].pattern, line)
    THEN CHOOSE r \in RuleIds :
             /\ Test(relativeImportMappings[r].pattern, line)
             /\ \A q \in 1..(r - 1) :
                    ~Test(relativeImportMappings[q].pattern, line)
    ELSE 0

\* the line rewritten by rule r of the table alone
RewrittenBy(r, line) ==
    ReplaceAll(relativeImportMappings[r].pattern,
               relativeImportMappings[r].replacement, line, 1)

\* out is line, left alone or rewritten by the first matching rule alone;
\* a line that already names the package is left alone
FirstRuleOnly(line, out) ==
    IF NotYetQualified(line)
    THEN \/ out = line
         \/ FirstMatch(line) # 0 /\ out = RewrittenBy(FirstMatch(line), line)
    ELSE out = line

\* every line of the result comes from its line by FirstRuleOnly
LinesFirstRuleOnly(lines, outs) ==
    /\ Len(outs) = Len(lines)
    /\ \A n \in 1..Len(lines) : FirstRuleOnly(lines[n], outs[n])

\* C21: in the line pass every line is rewritten by at most one rule, the
\* first rule in table order whose pattern matches it (so dynamic_array and
\* hash_table go to the chapter of their first entry), and a line that
\* already holds 'from mastering_performant_code.' or
\* 'import mastering_performant_code.' is rewritten by no rule of the pass.
C21_FirstMatchingRule ==
    rwPc = "done" =>
        LinesFirstRuleOnly(
            SplitLines(applySrcTransformations(1, inputCode, <<>>).text,
                       1, <<>>),
            SplitLines(transformed.transformedCode, 1, <<>>))

\* the rules of the line pass that rewrote a line
LineRulesFired(lines, outs) ==
    {r \in RuleIds : \E n \in 1..Len(lines) :
        outs[n] # lines[n] /\ outs[n] = RewrittenBy(r, lines[n])}

\* the diagnostics entries of the given type
EntriesOfType(type) ==
    {k \in 1..Len(transformed.transformations) :
        transformed.transformations[k].type = type}

\* C22: the diagnostics of transformCode hold one entry for every rule that
\* fired, for the rules of the line pass as for the prefix rules, each with
\* the number of times its rule fired.
C22_EntryPerRule ==
    rwPc = "done" =>
        /\ \A keyword \in {"from", "import"} :
               RootOccurrences(inputCode, keyword) > 0 =>
                   \E k \in EntriesOfType("src_transformation") :
                       /\ transformed.transformations[k].pattern
                              = RootRule(keyword)
                       /\ transformed.transformations[k].count
                              = RootOccurrences(inputCode, keyword)
        /\ Cardinality(EntriesOfType("relative_import_mapping"))
               = Cardinality(LineRulesFired(
                     SplitLines(applySrcTransformations(1, inputCode,
                                                        <<>>).text, 1, <<>>),
                     SplitLines(transformed.transformedCode, 1, <<>>)))

\* the step is a transformAndExecute() call that hands a text to the
\* interpreter
TransformAndExecuteRuns ==
    /\ execPc = "idle"
    /\ execMethod' = "transformAndExecute"
    /\ patchedCode' # <<>>

\* C23: with the package not installed, transformAndExecute(code) skips the
\* rewriting: the interpreter gets the original code behind the __file__
\* guard, no import rewritten.
C23_SkipsRewriteWhenNotInstalled ==
    [][(TransformAndExecuteRuns /\ ~packageInstalled)
           => patchedCode' = filePatch \o <<"\n">> \o execCode']_vars

\* C29: with the package installed, transformAndExecute(code) hands the
\* interpreter the text that execute(code) would hand it, the second run of
\* the rewriter changing nothing.
C29_SameTextAsExecute ==
    [][(TransformAndExecuteRuns /\ packageInstalled)
           => \E direct \in {executeRewrite(execCode', lastIndex)} :
                  /\ ~direct.rejected
                  /\ patchedCode'
                         = filePatch \o <<"\n">> \o direct.transformedCode]_vars

C26_InstalledIffComplete ==
    isInstalled <=> ( /\ installationProgress.status = "complete"
                      /\ installationProgress.percentage = 100 )

\* C27: an initialize() call that resolved without throwing leaves
\* isInitialized true, also when it found another call in flight and waited
\* for it.
C27_ResolvedMeansInitialized ==
    \A j \in InitIds :
        (initPc[j] = "returned" /\ initResult[j] = "resolved")
            => isInitialized

\* the positions of an initialize() call that loads or installs
LoadingPcs == {"loadPyodide", "version", "setup", "install", "finish"}

\* C28: at most one initialize() call loads the interpreter and installs
\* the package at a time: a call made while another one is in flight loads
\* and installs nothing, and so does every call made once isInitialized is
\* true.
C28_OneLoadAtATime ==
    [][/\ Cardinality({j \in InitIds : initPc'[j] \in LoadingPcs}) <= 1
       /\ \A k \in InitIds :
              ( /\ initPc[k] = "idle" /\ initPc'[k] # "idle"
                /\ \/ isInitialized
                   \/ \E j \in InitIds : initPc[j] \in LoadingPcs )
              => /\ initPc'[k] \in {"waiting", "returned"}
                 /\ UNCHANGED <<pyodide, pmVars, packageInstalled>>]_vars

\* a second initialize() call waits while the first one is loading
C28_Witness ==
    \E j, k \in InitIds :
        /\ initPc[j] \in LoadingPcs
        /\ initPc[k] = "waiting"

\* res[p..] is, file by file from entry n of the log on, what the files'
\* runs gave: one outcome with status 'error' for a run that threw, the
\* parsed outcomes (fr, for entry n) otherwise
RECURSIVE FollowsLog(_, _, _, _)
SegmentFollowsLog(log, n, res, p, fr) ==
    /\ p + Len(fr) - 1 <= Len(res)
    /\ SubSeq(res, p, p + Len(fr) - 1) = fr
    /\ FollowsLog(log, n + 1, res, p + Len(fr))
FollowsLog(log, n, res, p) ==
    IF n > Len(log) THEN p = Len(res) + 1
    ELSE IF log[n].threw
    THEN /\ p <= Len(res)
         /\ res[p].status = "error"
         /\ res[p].file = log[n].file
         /\ FollowsLog(log, n + 1, res, p + 1)
    ELSE SegmentFollowsLog(log, n, res, p,
             parseTestResults(log[n].output, log[n].file).results)

\* C25: the list a runChapterTests call returns is the concatenation, in
\* the order of the test files, of what each file's run gave; a file whose
\* run threw contributes exactly one 'error' outcome at its position and the
\* files after it are still run; the returned list is what is stored for the
\* chapter.
C25_OutcomesInExecutionOrder ==
    \A c \in RunIds :
        (runPc[c] = "returned" /\ runReturn[c] = "results") =>
            /\ [k \in 1..Len(runLog[c]) |-> runLog[c][k].file] = testFiles
            /\ FollowsLog(runLog[c], 1, runResults[c], 1)
            /\ testResults[runChapter[c]] =
                   [stored |-> TRUE, results |-> runResults[c]]

\* a run has returned whose first file threw and whose later file gave
\* outcomes
C25_Witness ==
    \E c \in RunIds :
        /\ runPc[c] = "returned"
        /\ runReturn[c] = "results"
        /\ Len(runLog[c]) = Len(testFiles)
        /\ runLog[c][1].threw
        /\ ~runLog[c][3].threw
        /\ runLog[c][3].output # <<>>
        /\ Len(runResults[c]) > 2

\* a runChapterTests call between this.isRunning = true and the finally
\* block
RunInFlight(c) == runPc[c] \in {"getTestFiles", "runTestFile"}

\* C30: a runChapterTests call made while a run is in flight throws
\* 'Test execution already in progress', runs no test file and leaves the
\* stored results alone; when a run ends isRunning is false, and a call made
\* while no run is in flight is accepted.
C30_OneRunAtATime ==
    [][\A c \in RunIds :
          /\ ( /\ runPc[c] = "idle" /\ runPc'[c] # "idle"
               /\ \E d \in RunIds : RunInFlight(d) )
             => /\ runPc'[c] = "returned"
                /\ runReturn'[c] = "inProgress"
                /\ runLog'[c] = <<>>
                /\ runPending'[c] = "none"
                /\ UNCHANGED <<testResults, isRunning>>
          /\ (RunInFlight(c) /\ ~RunInFlight(c)')
             => /\ runPc'[c] = "returned"
                /\ ~isRunning'
          /\ ( /\ runPc[c] = "idle" /\ runPc'[c] # "idle"
               /\ \A d \in RunIds : ~RunInFlight(d) )
             => RunInFlight(c)']_vars

\* a call was rejected while a run is in flight and results are stored
C30_Witness ==
    \E c, d \in RunIds :
        /\ RunInFlight(c)
        /\ runPc[d] = "returned"
        /\ runReturn[d] = "inProgress"
        /\ \E ch \in Chapters :
              testResults[ch].stored /\ testResults[ch].results # <<>>
====
